---- MODULE Spec2Model ----
(***************************************************************************)
(* Model of src/src/mjssInterpreter.ts: the command interpreter            *)
(* (MJSSInterpreter) and the property-script engine (MJSSEngine).          *)
(*                                                                         *)
(* A JavaScript string is a sequence of one-character strings, so that     *)
(* split, trim, replace and join are computed character by character.      *)
(* A JavaScript object is a sequence of entries [k |-> key, v |-> value]   *)
(* in insertion order (the order Object.entries and the spread operator    *)
(* follow for non-numeric keys).  A value is a record [t, s, o]: t = "s" a *)
(* string s, t = "o" an object o, t = "u" undefined (or null).             *)
(***************************************************************************)
EXTENDS Integers, Sequences, FiniteSets, TLC

\* ------------------------------------------------------------------------
\* Bounds of the checked instances
\* ------------------------------------------------------------------------
\* updateMJSS calls made on one engine
MaxUpdates == 2

\* calls (parse, registerFunction) made on one interpreter
MaxOps == 3

\* lines of a property script handed to the parser alone
MaxParserLines == 2

\* top-level keys, and keys of a nested tree, of a tree that is serialized
MaxTreeKeys == 2

MaxInnerKeys == 1

\* environment objects: the interpreter's own and those of the host
MaxEnvs == 2

\* ------------------------------------------------------------------------
\* Strings
\* ------------------------------------------------------------------------
\* The white space String.prototype.trim and the regular expression \s remove
\* (the characters of it that the checked scripts use).
WhiteSpace == {" ", "\t"}

NL == "\n"

\* The quote characters of the pattern /^["']|["']$/g
Quotes == {"\"", "'"}

RECURSIVE TrimLeft(_)
TrimLeft(s) ==
  IF s # <<>> /\ Head(s) \in WhiteSpace THEN TrimLeft(Tail(s)) ELSE s

RECURSIVE TrimRight(_)
TrimRight(s) ==
  IF s # <<>> /\ s[Len(s)] \in WhiteSpace
    THEN TrimRight(SubSeq(s, 1, Len(s) - 1))
    ELSE s

\* String.prototype.trim
Trim(s) == TrimRight(TrimLeft(s))

\* index of the first occurrence of character c in s, 0 when there is none
IndexOf(s, c) ==
  IF \E i \in 1..Len(s) : s[i] = c
    THEN CHOOSE i \in 1..Len(s) : s[i] = c /\ \A j \in 1..(i - 1) : s[j] # c
    ELSE 0

\* String.prototype.split(c) for a one-character separator: every piece,
\* empty ones included; a string without c is one piece.
RECURSIVE Split(_, _)
Split(s, c) ==
  LET i == IndexOf(s, c) IN
    IF i = 0 THEN <<s>>
    ELSE <<SubSeq(s, 1, i - 1)>> \o Split(SubSeq(s, i + 1, Len(s)), c)

\* Array.prototype.join
RECURSIVE Join(_, _)
Join(parts, sep) ==
  IF parts = <<>> THEN <<>>
  ELSE IF Len(parts) = 1 THEN parts[1]
  ELSE parts[1] \o sep \o Join(Tail(parts), sep)

\* Array.prototype.map((line) => line.trim())
MapTrim(parts) == [i \in 1..Len(parts) |-> Trim(parts[i])]

\* The lines a script is cut into: script.split("\n").map(trim)
ScriptLines(script) == MapTrim(Split(script, NL))

\* !line || line.startsWith("#")
IsSkipped(line) == line = <<>> \/ Head(line) = "#"

\* ------------------------------------------------------------------------
\* Objects
\* ------------------------------------------------------------------------
StrV(s) == [t |-> "s", s |-> s, o |-> <<>>]

ObjV(o) == [t |-> "o", s |-> <<>>, o |-> o]

Undefined == [t |-> "u", s |-> <<>>, o |-> <<>>]

\* key in obj (own keys; the checked keys name no inherited property)
Has(obj, key) == \E i \in 1..Len(obj) : obj[i].k = key

\* obj[key]
Get(obj, key) ==
  IF Has(obj, key)
    THEN obj[CHOOSE i \in 1..Len(obj) : obj[i].k = key].v
    ELSE Undefined

\* String(i) for an array index 0..9
Digit(i) == <<"0", "1", "2", "3", "4", "5", "6", "7", "8", "9">>[i + 1]

\* A key that is an array index: own property order lists these first, in
\* ascending order, before the string keys (one-digit indices suffice for the
\* strings the checked scripts spread).
IsIndex(key) == Len(key) = 1 /\ \E i \in 0..9 : key[1] = Digit(i)

IndexVal(key) == CHOOSE i \in 0..9 : key[1] = Digit(i)

\* obj[key] = val: an existing key keeps its place; a new string key is
\* appended; a new index key goes among the index keys, in ascending order
Put(obj, key, val) ==
  IF Has(obj, key)
    THEN [i \in 1..Len(obj) |->
            IF obj[i].k = key THEN [k |-> key, v |-> val] ELSE obj[i]]
  ELSE IF IsIndex(key)
    THEN LET n == Cardinality({i \in 1..Len(obj) :
                     IsIndex(obj[i].k) /\ IndexVal(obj[i].k) < IndexVal(key)})
         IN SubSeq(obj, 1, n) \o <<[k |-> key, v |-> val]>>
              \o SubSeq(obj, n + 1, Len(obj))
  ELSE Append(obj, [k |-> key, v |-> val])

\* { ...a, ...b } for two objects
RECURSIVE SpreadInto(_, _)
SpreadInto(a, b) ==
  IF b = <<>> THEN a
  ELSE SpreadInto(Put(a, b[1].k, b[1].v), Tail(b))

\* The own enumerable properties `...x` copies: those of an object, the
\* indexed characters of a string, none of undefined.
SpreadOf(x) ==
  IF x.t = "o" THEN x.o
  ELSE IF x.t = "s"
    THEN [i \in 1..Len(x.s) |-> [k |-> <<Digit(i - 1)>>, v |-> StrV(<<x.s[i]>>)]]
  ELSE <<>>

\* `${val}`: a string is itself, an object is "[object Object]"
ObjectObject ==
  <<"[", "o", "b", "j", "e", "c", "t", " ", "O", "b", "j", "e", "c", "t", "]">>

ToStr(x) ==
  IF x.t = "s" THEN x.s
  ELSE IF x.t = "o" THEN ObjectObject
  ELSE <<"u", "n", "d", "e", "f", "i", "n", "e", "d">>

\* JavaScript truthiness of a property value
Truthy(x) == x.t = "o" \/ (x.t = "s" /\ x.s # <<>>)

\* ------------------------------------------------------------------------
\* MJSSEngine: the property-script parser
\* ------------------------------------------------------------------------
\* rawValue.replace(/^["']|["']$/g, ""): a quote at the start is removed and,
\* independently, a quote at the end
StripQuotes(s) ==
  LET s1 == IF s # <<>> /\ Head(s) \in Quotes THEN Tail(s) ELSE s
  IN IF s1 # <<>> /\ s1[Len(s1)] \in Quotes
       THEN SubSeq(s1, 1, Len(s1) - 1)
       ELSE s1

cleanedValue(rawValue) == Trim(StripQuotes(rawValue))

\* The drill-down loop and the final assignment of one line.  ok = FALSE is
\* the TypeError strict-mode code raises when the path reaches a string:
\* `part in "x"` for an inner segment, `"x"[lastKey] = v` for the last one.
RECURSIVE assignPath(_, _, _)
assignPath(currentObj, keyParts, val) ==
  IF Len(keyParts) = 1
    THEN [ok |-> TRUE, o |-> Put(currentObj, keyParts[1], StrV(val))]
  ELSE
    LET part == Head(keyParts)
        next == IF Has(currentObj, part) THEN Get(currentObj, part) ELSE ObjV(<<>>)
    IN IF next.t # "o"
         THEN [ok |-> FALSE, o |-> currentObj]
         ELSE LET r == assignPath(next.o, Tail(keyParts), val)
              IN [ok |-> r.ok, o |-> Put(currentObj, part, ObjV(r.o))]

\* One line of the property script applied to props
parseLine(props, line) ==
  LET pieces   == Split(line, "=")
      rawKey   == Trim(pieces[1])
  IN IF IsSkipped(line) \/ rawKey = <<>> \/ Len(pieces) < 2
       THEN [ok |-> TRUE, o |-> props]
       ELSE assignPath(props, Split(rawKey, "."), cleanedValue(Trim(pieces[2])))

RECURSIVE parseLines(_, _)
parseLines(props, lines) ==
  IF lines = <<>> THEN [ok |-> TRUE, props |-> props]
  ELSE LET r == parseLine(props, Head(lines))
       IN IF r.ok THEN parseLines(r.o, Tail(lines))
          ELSE [ok |-> FALSE, props |-> <<>>]

\* parseMJSS(script): ok = FALSE when it raises, else the tree it returns
parseMJSS(script) == parseLines(<<>>, ScriptLines(script))

\* ------------------------------------------------------------------------
\* MJSSEngine: serialization
\* ------------------------------------------------------------------------
QuotedAssign(key, val) == key \o <<" ", "=", " ", "\"">> \o ToStr(val) \o <<"\"">>

nestedLines(key, obj) ==
  [i \in 1..Len(obj) |-> QuotedAssign(key \o <<".">> \o obj[i].k, obj[i].v)]

RECURSIVE buildLines(_)
buildLines(props) ==
  IF props = <<>> THEN <<>>
  ELSE (IF props[1].v.t = "o"
          THEN nestedLines(props[1].k, props[1].v.o)
          ELSE <<QuotedAssign(props[1].k, props[1].v)>>)
       \o buildLines(Tail(props))

buildMJSS(props) == Join(buildLines(props), <<NL>>)

\* ------------------------------------------------------------------------
\* MJSSEngine: property names and literals the code spells out
\* ------------------------------------------------------------------------
KeyAnimation == <<"a", "n", "i", "m", "a", "t", "i", "o", "n">>

KeyButtonID == <<"b", "u", "t", "t", "o", "n", "I", "D">>

KeyText == <<"t", "e", "x", "t">>

KeyColor == <<"c", "o", "l", "o", "r">>

KeyWidth == <<"w", "i", "d", "t", "h">>

KeyHeight == <<"h", "e", "i", "g", "h", "t">>

KeyType == <<"t", "y", "p", "e">>

KeyDuration == <<"d", "u", "r", "a", "t", "i", "o", "n">>

Fade == <<"f", "a", "d", "e">>

DefaultDuration == <<"1", "s">>

\* `opacity ${duration} ease-in-out`
Transition(duration) ==
  <<"o", "p", "a", "c", "i", "t", "y", " ">> \o duration
    \o <<" ", "e", "a", "s", "e", "-", "i", "n", "-", "o", "u", "t">>

\* options.localStorageKey || "MJSS_SCRIPT"
localStorageKey == "MJSS_SCRIPT"

\* The keys of the store: the engine's own and one of another owner
StoreKeys == {localStorageKey, "OTHER"}

\* ------------------------------------------------------------------------
\* MJSSEngine: render
\* ------------------------------------------------------------------------
\* A fault is the external collaborator that raises during the call, if the
\* call reaches it: document.createElement ("create"), appendChild
\* ("append"), the first assignment to the button, its id included ("set"),
\* localStorage.setItem ("persist").
Faults == {"none", "create", "append", "set", "persist"}

\* The faults a construction can meet: localStorage.getItem ("read") and
\* those of the first render
InitFaults == {"none", "read", "create", "append", "set"}

NoButton ==
  [exists |-> FALSE, appended |-> FALSE, created |-> 0, appends |-> 0,
   id |-> Undefined,
   textContent |-> Undefined, backgroundColor |-> Undefined,
   width |-> Undefined, height |-> Undefined, transition |-> Undefined]

\* Mutant of Assigned: a property that is absent or empty clears the target
AssignedOrCleared(old, props, key) ==
  IF Truthy(Get(props, key)) THEN StrV(ToStr(Get(props, key))) ELSE Undefined

\* The value an assignment `target = props[key]` leaves, were it executed
Assigned(old, props, key) ==
  IF Truthy(Get(props, key)) THEN StrV(ToStr(Get(props, key))) ELSE old

\* animation.type === "fade" on a truthy animation
IsFade(props) ==
  LET a == Get(props, KeyAnimation)
  IN a.t = "o" /\ Get(a.o, KeyType) = StrV(Fade)

FadeTransition(props) ==
  LET d == Get(Get(props, KeyAnimation).o, KeyDuration)
  IN StrV(Transition(IF Truthy(d) THEN ToStr(d) ELSE DefaultDuration))

\* Some assignment to the button is executed by this render
AssignsSomething(props) ==
  \/ \E key \in {KeyText, KeyColor, KeyWidth, KeyHeight} : Truthy(Get(props, key))
  \/ IsFade(props)

\* Mutant of createButton: a button is created on every render
createButtonAlways(btn, props, fault) ==
  IF fault = "create" THEN [ok |-> FALSE, btn |-> btn]
  ELSE IF fault = "set" /\ Truthy(Get(props, KeyButtonID))
    THEN [ok  |-> FALSE,
          btn |-> [btn EXCEPT !.exists = TRUE, !.created = @ + 1]]
  ELSE [ok  |-> fault # "append",
        btn |-> [btn EXCEPT !.exists = TRUE,
                            !.created = @ + 1,
                            !.id = Assigned(Undefined, props, KeyButtonID),
                            !.appended = (fault # "append"),
                            !.appends = IF fault # "append" THEN @ + 1 ELSE @]]

\* Lines 363-370: create the button if it does not exist.  The element is
\* held by the engine as soon as createElement returns (line 364); when the
\* assignment of its id (line 367) raises, it is left without id and is not
\* appended, and appendChild (line 369) is the last step.
createButton(btn, props, fault) ==
  IF btn.exists THEN [ok |-> TRUE, btn |-> btn]
  ELSE IF fault = "create" THEN [ok |-> FALSE, btn |-> btn]
  ELSE IF fault = "set" /\ Truthy(Get(props, KeyButtonID))
    THEN [ok  |-> FALSE,
          btn |-> [btn EXCEPT !.exists = TRUE, !.created = @ + 1]]
  ELSE [ok  |-> fault # "append",
        btn |-> [btn EXCEPT !.exists = TRUE,
                            !.created = @ + 1,
                            !.id = Assigned(Undefined, props, KeyButtonID),
                            !.appended = (fault # "append"),
                            !.appends = IF fault # "append" THEN @ + 1 ELSE @]]

\* Lines 372-396: set the properties of the button
setProperties(btn, props, fault) ==
  IF fault = "set" /\ AssignsSomething(props) THEN [ok |-> FALSE, btn |-> btn]
  ELSE [ok  |-> TRUE,
        btn |-> [btn EXCEPT
                   !.textContent = Assigned(@, props, KeyText),
                   !.backgroundColor = Assigned(@, props, KeyColor),
                   !.width = Assigned(@, props, KeyWidth),
                   !.height = Assigned(@, props, KeyHeight),
                   !.transition = IF IsFade(props) THEN FadeTransition(props) ELSE @]]

\* renderButton(): ok = FALSE when it raises; btn is the button it leaves
renderButton(btn, props, fault) ==
  LET c == createButton(btn, props, fault)
  IN IF c.ok THEN setProperties(c.btn, props, fault) ELSE c

\* ------------------------------------------------------------------------
\* MJSSEngine: update
\* ------------------------------------------------------------------------
\* handleError(context, error): one report to the error hook
engineHandleError(errors, context) == Append(errors, context)

\* { ...current, ...newProps, animation: { ...current.animation, ...newProps.animation } }
mergeProps(current, newProps) ==
  Put(SpreadInto(current, newProps), KeyAnimation,
      ObjV(SpreadInto(SpreadInto(<<>>, SpreadOf(Get(current, KeyAnimation))),
                      SpreadOf(Get(newProps, KeyAnimation)))))

\* The tree the update assigns to currentMJSSProps (lines 412-426)
combineProps(current, newProps, replace) ==
  IF replace THEN newProps ELSE mergeProps(current, newProps)

\* localStorage.setItem(key, value)
setItem(store, key, value) == [store EXCEPT ![key] = StrV(value)]

\* The outcome of an engine call.  failedAt names the step that raised
\* ("none": the call completed), errors the reports made to the error hook,
\* raised whether the call raised to its caller.
Failed(step, context, props, btn, store) ==
  [props |-> props, btn |-> btn, store |-> store,
   failedAt |-> step, errors |-> engineHandleError(<<>>, context),
   raised |-> FALSE]

Completed(props, btn, store) ==
  [props |-> props, btn |-> btn, store |-> store,
   failedAt |-> "none", errors |-> <<>>, raised |-> FALSE]

\* Mutant of persistStep: the tree is saved although the render raised
persistStepSaveAnyway(e, combined, r, fault) ==
  IF ~r.ok
    THEN Failed("render", "UpdateMJSS", combined, r.btn,
                setItem(e.store, localStorageKey, buildMJSS(combined)))
  ELSE IF fault = "persist"
    THEN Failed("persist", "UpdateMJSS", combined, r.btn, e.store)
  ELSE Completed(combined, r.btn,
                 setItem(e.store, localStorageKey, buildMJSS(combined)))

\* Mutant of persistStep: a render that raises rolls the tree back
persistStepRollback(e, combined, r, fault) ==
  IF ~r.ok THEN Failed("render", "UpdateMJSS", e.props, r.btn, e.store)
  ELSE IF fault = "persist"
    THEN Failed("persist", "UpdateMJSS", combined, r.btn, e.store)
  ELSE Completed(combined, r.btn,
                 setItem(e.store, localStorageKey, buildMJSS(combined)))

\* Lines 431-432: persist the rendered tree
persistStep(e, combined, r, fault) ==
  IF ~r.ok THEN Failed("render", "UpdateMJSS", combined, r.btn, e.store)
  ELSE IF fault = "persist"
    THEN Failed("persist", "UpdateMJSS", combined, r.btn, e.store)
  ELSE Completed(combined, r.btn,
                 setItem(e.store, localStorageKey, buildMJSS(combined)))

\* Lines 428-429: render the combined tree
renderStep(e, combined, fault) ==
  persistStep(e, combined, renderButton(e.btn, combined, fault), fault)

\* Lines 410-426: parse the script and assign the combined tree
combineStep(e, newProps, replace, fault) ==
  IF ~newProps.ok
    THEN Failed("parse", "UpdateMJSS", e.props, e.btn, e.store)
    ELSE renderStep(e, combineProps(e.props, newProps.props, replace), fault)

\* updateMJSS(newScript, replace) on engine state e = [props, btn, store]
updateMJSS(e, newScript, replace, fault) ==
  combineStep(e, parseMJSS(newScript), replace, fault)

\* Mutant of initialRender: the construction saves the tree it rendered
initialRenderSaving(store, parsed, r) ==
  IF ~r.ok
    THEN Failed("render", "Initialization", parsed.props, r.btn, store)
    ELSE Completed(parsed.props, r.btn,
                   setItem(store, localStorageKey, buildMJSS(parsed.props)))

\* Lines 295-299 of initialize(): render what was parsed
initialRender(store, parsed, r) ==
  IF ~r.ok
    THEN Failed("render", "Initialization", parsed.props, r.btn, store)
    ELSE Completed(parsed.props, r.btn, store)

\* Lines 290-293 of initialize(): read and parse the saved script
initialParse(store, savedScript, parsed, fault) ==
  IF ~parsed.ok
    THEN Failed("parse", "Initialization", <<>>, NoButton, store)
    ELSE initialRender(store, parsed, renderButton(NoButton, parsed.props, fault))

\* localStorage.getItem(key) || ""
savedScriptOf(store) ==
  IF store[localStorageKey].t = "s" THEN store[localStorageKey].s ELSE <<>>

\* initialize(), called by the constructor once the container is resolved
initialize(store, fault) ==
  IF fault = "read"
    THEN Failed("read", "Initialization", <<>>, NoButton, store)
    ELSE initialParse(store, savedScriptOf(store),
                      IF savedScriptOf(store) # <<>>
                        THEN parseMJSS(savedScriptOf(store))
                        ELSE [ok |-> TRUE, props |-> <<>>],
                      fault)

\* options.container: an element, the id of an element of the document, or
\* an id that document.getElementById does not find
Containers == {"element", "found-id", "missing-id"}

\* The element the engine renders into; NoContainer when there is no engine
TheContainer == "container"

NoContainer == "none"

\* Lines 264-275: resolve the container
resolveContainer(container) ==
  IF container = "missing-id" THEN NoContainer ELSE TheContainer

\* Mutant of construct: an unresolved container is reported like any other
\* failure of the construction
constructReportingContainer(container, store, fault) ==
  IF resolveContainer(container) = NoContainer
    THEN Failed("container", "Initialization", <<>>, NoButton, store)
    ELSE initialize(store, fault)

\* new MJSSEngine(options): raised = TRUE when the constructor throws
construct(container, store, fault) ==
  IF resolveContainer(container) = NoContainer
    THEN [props |-> <<>>, btn |-> NoButton, store |-> store,
          failedAt |-> "container", errors |-> <<>>, raised |-> TRUE]
    ELSE initialize(store, fault)

\* ------------------------------------------------------------------------
\* State
\* ------------------------------------------------------------------------
VARIABLES
  currentMJSSProps,  \* MJSSEngine.currentMJSSProps
  buttonElem,        \* MJSSEngine.buttonElem and what was assigned to it
  localStorage,      \* the store: key -> string, or undefined for no item
  call,              \* the last engine call: its inputs, the tree before it, its outcome
  updates,           \* the number of updateMJSS calls made
  rendered,          \* the tree at the end of the last update whose render succeeded
  persisted,         \* the tree at the end of the last update that completed
  containerElem,     \* MJSSEngine.containerElem
  storeReads,        \* the number of localStorage.getItem calls the engine made
  options            \* the options the constructor was called with

engineVars == <<currentMJSSProps, buttonElem, localStorage, call, updates,
                rendered, persisted, containerElem, storeReads, options>>

\* The parser and the serializer applied on their own
VARIABLES
  parserPc,      \* "text" | "tree" | "serialized" | "parsed" | "reparsed" | "done"
  inputTree,     \* the tree handed to buildMJSS
  scriptText,    \* the text handed to parseMJSS
  parsed,        \* what parseMJSS returned: [ok, props]
  reserialized   \* buildMJSS of the parsed tree

parserVars == <<parserPc, inputTree, scriptText, parsed, reserialized>>

\* MJSSInterpreter
VARIABLES
  envs,             \* every environment object the host has made, by identity
  env,              \* MJSSInterpreter.env: the identity of the assigned one
  commandRegistry,  \* MJSSInterpreter.commandRegistry: name -> handler
  onLineParsed,     \* config.onLineParsed: "none" | "returns" | "raises"
  ops,              \* the number of calls made on the interpreter
  run               \* the last call: its input, what it did, how it ended

interpVars == <<envs, env, commandRegistry, onLineParsed, ops, run>>

vars == <<engineVars, parserVars, interpVars>>

\* ------------------------------------------------------------------------
\* Inputs of the engine
\* ------------------------------------------------------------------------
Assign(key, value) == key \o <<" ", "=", " ", "\"">> \o value \o <<"\"">>

Lines2(l1, l2) == l1 \o <<NL>> \o l2

TextX == Assign(KeyText, <<"x">>)

TextB == Assign(KeyText \o <<".", "b">>, <<"y">>)

TextC == Assign(KeyText \o <<".", "c">>, <<"z">>)

TextEmptySegment == Assign(KeyText \o <<".">>, <<"x">>)

AnimationF == Assign(KeyAnimation, <<"f">>)

AnimationB == Assign(KeyAnimation \o <<".", "b">>, <<"y">>)

\* The scripts the engine is driven with: a leaf, nested keys under the same
\* top-level key, a path with an empty segment, `animation` as a leaf and as
\* a tree, a path through a leaf, and two keys at once
EngineScripts ==
  { TextX, TextB, TextC, TextEmptySegment, AnimationF, AnimationB,
    Lines2(TextX, TextB), Lines2(TextB, AnimationF) }

\* A saved script with a comment, a line without `=` and an assignment
CommentedText == <<"#", " ", "c", NL>> \o KeyText \o <<NL>> \o TextX

\* What the store may hold under the engine's key when it is constructed
SavedItems ==
  {Undefined} \cup {StrV(s) : s \in {TextX, TextB, AnimationF, Lines2(TextX, TextB),
                                     CommentedText}}

\* The scripts the rendering engine is driven with: text set and emptied, a
\* key path with two dots, a button id, a color with a width, and the fade
\* animation
TextEmpty == Assign(KeyText, <<>>)

TextBC == Assign(KeyText \o <<".", "b", ".", "c">>, <<"z">>)

ColorR == Assign(KeyColor, <<"r">>)

WidthW == Assign(KeyWidth, <<"w">>)

ButtonIDP == Assign(KeyButtonID, <<"p">>)

ButtonIDQ == Assign(KeyButtonID, <<"q">>)

AnimationFade == Assign(KeyAnimation \o <<".">> \o KeyType, Fade)

RenderScripts ==
  { TextX, TextEmpty, TextBC, ButtonIDQ, Lines2(ColorR, WidthW), AnimationFade }

\* What the store may hold when the rendering engine is constructed: nothing,
\* a text with a color, a button id, a script on which parseMJSS raises
SavedRenderItems ==
  {Undefined} \cup {StrV(s) : s \in {Lines2(TextX, ColorR), ButtonIDP, Lines2(TextX, TextB)}}

\* ------------------------------------------------------------------------
\* Engine: construction and the update operation
\* ------------------------------------------------------------------------
NoTree == [has |-> FALSE, props |-> <<>>]

Outcome(op, script, replace, base, r) ==
  [op |-> op, script |-> script, replace |-> replace, base |-> base,
   failedAt |-> r.failedAt, errors |-> r.errors, raised |-> r.raised]

\* The fault is one the call can meet
Manifest(fault, btn) ==
  fault \in {"create", "append"} => ~btn.exists

\* new MJSSEngine({container, onError}) over a store
ConstructIn(container, saved, fault) ==
  \E r \in {construct(container,
                       [k \in StoreKeys |->
                          IF k = localStorageKey THEN saved ELSE StrV(<<"o">>)],
                       fault)} :
     /\ currentMJSSProps = r.props
     /\ buttonElem = r.btn
     /\ localStorage = r.store
     /\ call = Outcome("construct", IF saved.t = "s" THEN saved.s ELSE <<>>,
                       FALSE, <<>>, r)
     /\ updates = 0
     /\ rendered = NoTree
     /\ persisted = NoTree
     /\ containerElem = resolveContainer(container)
     /\ storeReads = (IF r.raised THEN 0 ELSE 1)
     /\ options = [container |-> container]

\* The same, the container given as an element
Construct(saved, fault) == ConstructIn("element", saved, fault)

EngineInit ==
  \E saved \in SavedItems, fault \in Faults \ {"persist"} : Construct(saved, fault)

\* engine.updateMJSS(newScript, replace)
UpdateMJSS(newScript, replace, fault) ==
  /\ updates < MaxUpdates
  /\ containerElem # NoContainer
  /\ Manifest(fault, buttonElem)
  /\ UNCHANGED <<containerElem, storeReads, options>>
  /\ \E r \in {updateMJSS([props |-> currentMJSSProps, btn |-> buttonElem,
                            store |-> localStorage], newScript, replace, fault)} :
       /\ currentMJSSProps' = r.props
       /\ buttonElem' = r.btn
       /\ localStorage' = r.store
       /\ call' = Outcome("update", newScript, replace, currentMJSSProps, r)
       /\ updates' = updates + 1
       /\ rendered' = IF r.failedAt \in {"none", "persist"}
                        THEN [has |-> TRUE, props |-> r.props] ELSE rendered
       /\ persisted' = IF r.failedAt = "none"
                         THEN [has |-> TRUE, props |-> r.props] ELSE persisted

\* An engine over an empty store, on which nothing is called
EngineIdle == Construct(Undefined, "none")

\* Any construction: any container, any saved item, any fault it can meet
ButtonInit ==
  \E container \in Containers, saved \in SavedRenderItems, fault \in InitFaults :
    ConstructIn(container, saved, fault)

\* ------------------------------------------------------------------------
\* The parser and the serializer on their own
\* ------------------------------------------------------------------------
ParserKeys ==
  { <<"a">>, <<"a", ".", "b">>, <<"a", ".", "b", ".", "c">>, <<"a", ".">>, <<>> }

ParserSeparators == { <<"=">>, <<" ", "=", " ">> }

ParserValues ==
  { <<"x">>, <<"\"", "y", "\"">>, <<"'", "y">>, <<"x", "=", "y">>, <<>> }

ParserLines ==
  {k \o e \o v : k \in ParserKeys, e \in ParserSeparators, v \in ParserValues}
    \cup { <<"a">>, <<"#", "a", "=", "x">>, <<" ">> }

\* Every script of at most n lines drawn from lines
RECURSIVE ScriptsOf(_, _)
ScriptsOf(lines, n) ==
  IF n = 0 THEN {<<>>}
  ELSE LET shorter == ScriptsOf(lines, n - 1)
       IN shorter \cup lines
            \cup {s \o <<NL>> \o l : s \in shorter \ {<<>>}, l \in lines}

ParserTexts == ScriptsOf(ParserLines, MaxParserLines)

\* Trees with one level of nesting at most, quote-free values, keys that are
\* segments of the grammar
LeafValues == { <<"x">>, <<"x", "=", "y">>, <<>> }

\* The leaves of the nested trees
InnerValues == { <<"x">>, <<"x", "=", "y">> }

TopKeys == { <<"a">>, <<"b">>, <<"c">> }

InnerKeys == { <<"c">>, <<"d">> }

\* Every object of at most n entries with distinct keys and the given values
RECURSIVE ObjectsOf(_, _, _)
ObjectsOf(keys, values, n) ==
  IF n = 0 THEN {<<>>}
  ELSE LET smaller == ObjectsOf(keys, values, n - 1)
       IN smaller \cup {Append(o, [k |-> k, v |-> v]) :
                          o \in {x \in smaller : Len(x) = n - 1},
                          k \in keys, v \in values}

DistinctKeys(obj) == \A i, j \in 1..Len(obj) : obj[i].k = obj[j].k => i = j

LeafSet == {StrV(v) : v \in LeafValues}

InnerTrees ==
  {o \in ObjectsOf(InnerKeys, {StrV(v) : v \in InnerValues}, MaxInnerKeys) :
     DistinctKeys(o)}

InputTrees ==
  {o \in ObjectsOf(TopKeys, LeafSet \cup {ObjV(t) : t \in InnerTrees}, MaxTreeKeys) :
     DistinctKeys(o)}

NotParsed == [ok |-> FALSE, props |-> <<>>]

ParserIdle ==
  /\ parserPc = "idle"
  /\ inputTree = <<>>
  /\ scriptText = <<>>
  /\ parsed = NotParsed
  /\ reserialized = <<>>

ParserInit ==
  /\ parsed = NotParsed
  /\ reserialized = <<>>
  /\ \/ parserPc = "text" /\ inputTree = <<>> /\ scriptText \in ParserTexts
     \/ parserPc = "tree" /\ inputTree \in InputTrees /\ scriptText = <<>>

\* buildMJSS() of the input tree
Serialize ==
  /\ parserPc = "tree"
  /\ scriptText' = buildMJSS(inputTree)
  /\ parserPc' = "serialized"
  /\ UNCHANGED <<inputTree, parsed, reserialized>>

\* parseMJSS(scriptText)
Parse ==
  /\ parserPc \in {"text", "serialized"}
  /\ parsed' = parseMJSS(scriptText)
  /\ parserPc' = IF parserPc = "text" THEN "parsed" ELSE "reparsed"
  /\ UNCHANGED <<inputTree, scriptText, reserialized>>

\* buildMJSS() of the tree parsed from a serialization
Reserialize ==
  /\ parserPc = "reparsed" /\ parsed.ok
  /\ reserialized' = buildMJSS(parsed.props)
  /\ parserPc' = "done"
  /\ UNCHANGED <<inputTree, scriptText, parsed>>

\* ------------------------------------------------------------------------
\* MJSSInterpreter
\* ------------------------------------------------------------------------
CmdSetProperty == <<"s", "e", "t", "P", "r", "o", "p", "e", "r", "t", "y">>

CmdAnimateElement ==
  <<"a", "n", "i", "m", "a", "t", "e", "E", "l", "e", "m", "e", "n", "t">>

KeyLastAnimation ==
  <<"l", "a", "s", "t", "A", "n", "i", "m", "a", "t", "i", "o", "n">>

KeyAnimationName ==
  <<"a", "n", "i", "m", "a", "t", "i", "o", "n", "N", "a", "m", "e">>

\* handleError("parse", ...)
ParseContext == <<"p", "a", "r", "s", "e">>

\* `Command '${commandName}'`
CommandContext(commandName) ==
  <<"C", "o", "m", "m", "a", "n", "d", " ", "'">> \o commandName \o <<"'">>

\* line.split(/\s+/) of a trimmed, non-empty line
RECURSIVE Tokens(_)
Tokens(s) ==
  LET t == TrimLeft(s)
      n == IF \E i \in 1..Len(t) : t[i] \in WhiteSpace
             THEN (CHOOSE i \in 1..Len(t) :
                      t[i] \in WhiteSpace /\ \A j \in 1..(i - 1) : t[j] \notin WhiteSpace) - 1
             ELSE Len(t)
  IN IF t = <<>> THEN <<>>
     ELSE <<SubSeq(t, 1, n)>> \o Tokens(SubSeq(t, n + 1, Len(t)))

\* The handlers: the two built-in ones, and three a host registers: one that
\* returns without effect, one that raises, and one that calls
\* setEnvironment with an environment object of the host
BuiltIns == {"setProperty", "animateElement"}

Handlers == BuiltIns \cup {"noop", "throws", "switchEnv"}

\* The identity of the object the interpreter makes for itself (line 62)
OwnEnv == 1

\* The identity of the object the "switchEnv" handler assigns
SwitchTarget == 2

\* The identities of the objects the host can pass to setEnvironment
HostEnvs == 2..MaxEnvs

\* What an environment object of the host holds before the interpreter
\* writes to it
HostEnv == <<[k |-> <<"h">>, v |-> StrV(<<"0">>)]>>

\* Every environment object, by identity, when the interpreter is made
InitialEnvs == [i \in 1..MaxEnvs |-> IF i = OwnEnv THEN <<>> ELSE HostEnv]

\* setEnvironment(env): the identity that is assigned
setEnvironment(current, id) == id

\* Mutant of setPropertyHandler: only the first value token is stored
setPropertyHandlerFirstValue(e, args) ==
  IF Len(args) < 2 THEN [ok |-> FALSE, e |-> e]
  ELSE [ok |-> TRUE, e |-> Put(e, args[1], StrV(args[2]))]

\* The handler of setProperty (lines 157-167) on environment object e
setPropertyHandler(e, args) ==
  IF Len(args) < 2 THEN [ok |-> FALSE, e |-> e]
  ELSE [ok |-> TRUE, e |-> Put(e, args[1], StrV(Join(Tail(args), <<" ">>)))]

\* Mutant of animateElementHandler: the duration is the last argument
animateElementHandlerLastArg(e, args) ==
  IF Len(args) < 2 THEN [ok |-> FALSE, e |-> e]
  ELSE [ok |-> TRUE,
        e  |-> Put(e, KeyLastAnimation,
                   ObjV(<<[k |-> KeyAnimationName, v |-> StrV(args[1])],
                          [k |-> KeyDuration, v |-> StrV(args[Len(args)])]>>))]

\* The handler of animateElement (lines 171-185) on environment object e
animateElementHandler(e, args) ==
  IF Len(args) < 2 THEN [ok |-> FALSE, e |-> e]
  ELSE [ok |-> TRUE,
        e  |-> Put(e, KeyLastAnimation,
                   ObjV(<<[k |-> KeyAnimationName, v |-> StrV(args[1])],
                          [k |-> KeyDuration, v |-> StrV(args[2])]>>))]

\* commandHandler(args): ok = FALSE when the handler raises, e the object
\* this.env as the handler leaves it
callHandler(handler, e, args) ==
  IF handler = "setProperty" THEN setPropertyHandler(e, args)
  ELSE IF handler = "animateElement" THEN animateElementHandler(e, args)
  ELSE IF handler \in {"noop", "switchEnv"} THEN [ok |-> TRUE, e |-> e]
  ELSE [ok |-> FALSE, e |-> e]

\* this.env after the handler returned: the "switchEnv" handler assigned it
envAfter(handler, current) ==
  IF handler = "switchEnv" THEN setEnvironment(current, SwitchTarget) ELSE current

\* MJSSInterpreter.handleError(context, error): one report
handleError(errors, line, context) ==
  Append(errors, [line |-> line, context |-> context])

Dispatched(line, commandName, args, outcome) ==
  [line |-> line, command |-> commandName, args |-> args, outcome |-> outcome]

\* Mutant of reportUnknown: an unknown command is skipped without a report
reportUnknownSilently(st, i, commandName, args) ==
  [st EXCEPT !.dispatched = Append(@, Dispatched(i, commandName, args, "unknown"))]

\* Lines 117-124: no handler is registered for the command
reportUnknown(st, i, commandName, args) ==
  [st EXCEPT !.errors = handleError(@, i, ParseContext),
             !.dispatched = Append(@, Dispatched(i, commandName, args, "unknown"))]

\* The hooks a host configures as config.onLineParsed: none, one that
\* returns, one that raises
LineParsedHooks == {"none", "returns", "raises"}

\* Lines 131-133: config.onLineParsed(commandName, args), if configured.  The
\* call is recorded; a hook that raises does so inside the try of line 127,
\* and the catch of line 134 reports it under the name of the command.
notifyLineParsed(st, i, commandName, args) ==
  IF st.onLineParsed = "none" THEN st
  ELSE IF st.onLineParsed = "returns"
    THEN [st EXCEPT !.parsedLines = Append(@, [line |-> i, command |-> commandName,
                                               args |-> args])]
  ELSE [st EXCEPT !.parsedLines = Append(@, [line |-> i, command |-> commandName,
                                             args |-> args]),
                  !.errors = handleError(@, i, CommandContext(commandName))]

\* Mutant of execute: the handlers write to the environment object the
\* interpreter was constructed with
executeOnOwnEnv(st, i, commandName, args, h) ==
  IF h.ok
    THEN notifyLineParsed(
           [st EXCEPT !.envs[OwnEnv] = h.e,
                      !.env = envAfter(st.registry[commandName], @),
                      !.dispatched = Append(@, Dispatched(i, commandName, args, "ok"))],
           i, commandName, args)
    ELSE [st EXCEPT !.errors = handleError(@, i, CommandContext(commandName)),
                    !.dispatched = Append(@, Dispatched(i, commandName, args, "raised"))]

\* Mutant of execute: the line-parsed hook is called whether the handler
\* returned or raised
executeNotifyAlways(st, i, commandName, args, h) ==
  IF h.ok
    THEN notifyLineParsed(
           [st EXCEPT !.envs[st.env] = h.e,
                      !.env = envAfter(st.registry[commandName], @),
                      !.dispatched = Append(@, Dispatched(i, commandName, args, "ok"))],
           i, commandName, args)
    ELSE [st EXCEPT !.parsedLines = IF st.onLineParsed # "none"
                                      THEN Append(@, [line |-> i, command |-> commandName,
                                                      args |-> args])
                                      ELSE @,
                    !.errors = handleError(@, i, CommandContext(commandName)),
                    !.dispatched = Append(@, Dispatched(i, commandName, args, "raised"))]

\* Lines 127-136: the handler was called with result h.  When it returned,
\* its writes are in this.env and the hook is called; when it raised, the
\* catch reports it and the hook is not called.
execute(st, i, commandName, args, h) ==
  IF h.ok
    THEN notifyLineParsed(
           [st EXCEPT !.envs[st.env] = h.e,
                      !.env = envAfter(st.registry[commandName], @),
                      !.dispatched = Append(@, Dispatched(i, commandName, args, "ok"))],
           i, commandName, args)
    ELSE [st EXCEPT !.errors = handleError(@, i, CommandContext(commandName)),
                    !.dispatched = Append(@, Dispatched(i, commandName, args, "raised"))]

\* What a dispatched line did, kept for each line: the handler that was
\* invoked ("none" for an unknown command) and every environment object as
\* the line left it
observed(st, handler) ==
  [st EXCEPT !.invoked = Append(@, handler), !.after = Append(@, st.envs)]

\* Lines 110-136: a line that is neither blank nor a comment
dispatch(st, i, tokens) ==
  IF Head(tokens) \notin DOMAIN st.registry
    THEN observed(reportUnknown(st, i, Head(tokens), Tail(tokens)), "none")
    ELSE observed(execute(st, i, Head(tokens), Tail(tokens),
                          callHandler(st.registry[Head(tokens)], st.envs[st.env],
                                      Tail(tokens))),
                  st.registry[Head(tokens)])

\* The body of the loop over the lines (lines 101-137)
interpretLine(st, i, line) ==
  IF IsSkipped(line) THEN st ELSE dispatch(st, i, Tokens(line))

RECURSIVE interpretFrom(_, _, _)
interpretFrom(st, lines, i) ==
  IF i > Len(lines) THEN st
  ELSE interpretFrom(interpretLine(st, i, lines[i]), lines, i + 1)

\* parse(script) on interpreter state st = [envs, env, registry, onLineParsed]:
\* the state it leaves, the lines it dispatched, the reports and
\* notifications it made, in order
parse(st, script) ==
  interpretFrom([envs |-> st.envs, env |-> st.env, registry |-> st.registry,
                 onLineParsed |-> st.onLineParsed,
                 dispatched |-> <<>>, errors |-> <<>>, parsedLines |-> <<>>,
                 invoked |-> <<>>, after |-> <<>>],
                ScriptLines(script), 1)

\* Mutant of registerFunction: a name that is registered keeps its handler
registerFunctionKeepFirst(registry, commandName, handler) ==
  IF commandName = <<>> THEN [ok |-> FALSE, registry |-> registry]
  ELSE [ok |-> TRUE,
        registry |-> [n \in DOMAIN registry \cup {commandName} |->
                        IF n \in DOMAIN registry THEN registry[n] ELSE handler]]

\* registerFunction(commandName, handler): ok = FALSE when it raises
registerFunction(registry, commandName, handler) ==
  IF commandName = <<>> THEN [ok |-> FALSE, registry |-> registry]
  ELSE [ok |-> TRUE,
        registry |-> [n \in DOMAIN registry \cup {commandName} |->
                        IF n = commandName THEN handler ELSE registry[n]]]

\* registerDefaultCommands()
registerDefaultCommands ==
  registerFunction(registerFunction([n \in {} |-> "none"],
                                    CmdSetProperty, "setProperty").registry,
                   CmdAnimateElement, "animateElement").registry

\* ------------------------------------------------------------------------
\* Interpreter: inputs, construction and operations
\* ------------------------------------------------------------------------
Words(tokens) == Join(tokens, <<" ">>)

CmdFoo == <<"f", "o", "o">>

SetAX == Words(<<CmdSetProperty, <<"a">>, <<"x">>>>)

SetBY == Words(<<CmdSetProperty, <<"b">>, <<"y">>>>)

\* several value tokens, separated by runs of white space
SetAXY == CmdSetProperty \o <<" ", " ", "a", " ", "x", "\t", " ", "y", " ">>

\* too few arguments: the handler raises
SetA == Words(<<CmdSetProperty, <<"a">>>>)

AnimateF2 == Words(<<CmdAnimateElement, <<"f">>, <<"2", "s">>>>)

AnimateF == Words(<<CmdAnimateElement, <<"f">>>>)

Foo1 == Words(<<CmdFoo, <<"1">>>>)

\* more arguments than the handler reads
AnimateF2Z == Words(<<CmdAnimateElement, <<"f">>, <<"2", "s">>, <<"z">>>>)

CommentLine == <<"#", " ">> \o SetBY

Lines3(l1, l2, l3) == l1 \o <<NL>> \o l2 \o <<NL>> \o l3

\* The command scripts the interpreter is driven with
CommandScripts ==
  { <<>>,
    SetAX,
    SetAXY,
    Lines2(Foo1, SetAX),
    Lines2(SetA, AnimateF2),
    Lines3(CommentLine, <<" ">>, AnimateF),
    Lines3(SetBY, CmdFoo, SetAXY),
    Lines3(AnimateF, Foo1, SetBY),
    Lines2(SetBY, AnimateF2Z) }

\* The names a host registers handlers under
RegisteredNames == {CmdFoo, CmdSetProperty, <<>>}

NoRun ==
  [op |-> "new", script |-> <<>>, name |-> <<>>, handler |-> "none",
   before |-> <<>>, dispatched |-> <<>>, errors |-> <<>>, parsedLines |-> <<>>,
   raised |-> FALSE, envId |-> OwnEnv, envsBefore |-> InitialEnvs,
   invoked |-> <<>>, after |-> <<>>]

\* new MJSSInterpreter(config)
InterpInit ==
  /\ envs = InitialEnvs
  /\ env = OwnEnv
  /\ commandRegistry = registerDefaultCommands
  /\ onLineParsed \in LineParsedHooks
  /\ ops = 0
  /\ run = NoRun

\* An interpreter on which nothing is called
InterpIdle ==
  /\ envs = InitialEnvs
  /\ env = OwnEnv
  /\ commandRegistry = registerDefaultCommands
  /\ onLineParsed = "none"
  /\ ops = 0
  /\ run = NoRun

\* interpreter.parse(script)
ParseScript(script) ==
  /\ ops < MaxOps
  /\ \E r \in {parse([envs |-> envs, env |-> env, registry |-> commandRegistry,
                      onLineParsed |-> onLineParsed], script)} :
       /\ envs' = r.envs
       /\ env' = r.env
       /\ run' = [NoRun EXCEPT !.op = "parse", !.script = script,
                               !.before = envs[env],
                               !.envId = env,
                               !.envsBefore = envs,
                               !.dispatched = r.dispatched,
                               !.errors = r.errors,
                               !.parsedLines = r.parsedLines,
                               !.invoked = r.invoked,
                               !.after = r.after]
  /\ ops' = ops + 1
  /\ UNCHANGED <<commandRegistry, onLineParsed>>

\* interpreter.registerFunction(commandName, handler)
RegisterFunction(commandName, handler) ==
  /\ ops < MaxOps
  /\ \E r \in {registerFunction(commandRegistry, commandName, handler)} :
       /\ commandRegistry' = r.registry
       /\ run' = [NoRun EXCEPT !.op = "register", !.name = commandName,
                               !.handler = handler, !.raised = ~r.ok,
                               !.envId = env, !.envsBefore = envs]
  /\ ops' = ops + 1
  /\ UNCHANGED <<envs, env, onLineParsed>>

\* interpreter.setEnvironment(env), env the host's object of identity id
SetEnvironment(id) ==
  /\ ops < MaxOps
  /\ env' = setEnvironment(env, id)
  /\ run' = [NoRun EXCEPT !.op = "setEnvironment", !.envId = id,
                          !.envsBefore = envs]
  /\ ops' = ops + 1
  /\ UNCHANGED <<envs, commandRegistry, onLineParsed>>

\* ------------------------------------------------------------------------
\* Specifications
\* ------------------------------------------------------------------------
\* The engine
Update ==
  /\ \E newScript \in EngineScripts, replace \in BOOLEAN, fault \in Faults :
       UpdateMJSS(newScript, replace, fault)
  /\ UNCHANGED <<parserVars, interpVars>>

Init == EngineInit /\ ParserIdle /\ InterpIdle

Next == Update

Spec == Init /\ [][Next]_vars

\* The engine, its construction and its button
UpdateButton ==
  /\ \E newScript \in RenderScripts, replace \in BOOLEAN, fault \in Faults :
       UpdateMJSS(newScript, replace, fault)
  /\ UNCHANGED <<parserVars, interpVars>>

InitButton == ButtonInit /\ ParserIdle /\ InterpIdle

NextButton == UpdateButton

SpecButton == InitButton /\ [][NextButton]_vars

\* The parser and the serializer on their own
SerializeTree == Serialize /\ UNCHANGED <<engineVars, interpVars>>

ParseText == Parse /\ UNCHANGED <<engineVars, interpVars>>

ReserializeTree == Reserialize /\ UNCHANGED <<engineVars, interpVars>>

InitParser == EngineIdle /\ ParserInit /\ InterpIdle

NextParser == SerializeTree \/ ParseText \/ ReserializeTree

SpecParser == InitParser /\ [][NextParser]_vars

\* The interpreter
ParseCall ==
  /\ \E script \in CommandScripts : ParseScript(script)
  /\ UNCHANGED <<engineVars, parserVars>>

RegisterCall ==
  /\ \E commandName \in RegisteredNames, handler \in Handlers :
       RegisterFunction(commandName, handler)
  /\ UNCHANGED <<engineVars, parserVars>>

SetEnvironmentCall ==
  /\ \E id \in HostEnvs : SetEnvironment(id)
  /\ UNCHANGED <<engineVars, parserVars>>

InitInterp == EngineIdle /\ ParserIdle /\ InterpInit

NextInterp == ParseCall \/ RegisterCall \/ SetEnvironmentCall

SpecInterp == InitInterp /\ [][NextInterp]_vars

\* ------------------------------------------------------------------------
\* Properties of the engine
\* ------------------------------------------------------------------------
Keys(obj) == {obj[i].k : i \in 1..Len(obj)}

OwnItem == localStorage[localStorageKey]

\* The last call was an updateMJSS whose script the parser accepted
Updated == call.op = "update" /\ call.failedAt # "parse"

\* The tree the parser returned for the last call's script
Incoming == parseMJSS(call.script).props

\* C2 (as claimed): after any sequence of updateMJSS calls the string stored
\* under the persistence key is the serialization of the tree as it stood at
\* the end of the most recent update whose render succeeded.
C2_PersistedIsLastRendered ==
  rendered.has => OwnItem = StrV(buildMJSS(rendered.props))

\* C2 (amended): after any sequence of updateMJSS calls the string stored
\* under the persistence key is the serialization of the tree as it stood at
\* the end of the most recent update whose render and persist both succeeded.
C2_PersistedIsLastCompleted ==
  persisted.has => OwnItem = StrV(buildMJSS(persisted.props))

\* C2 witness: an update completed, a later one failed in render or persist,
\* and the current tree no longer serializes to what is stored.
C2_Witness ==
  /\ persisted.has
  /\ call.op = "update" /\ call.failedAt \in {"render", "persist"}
  /\ buildMJSS(currentMJSSProps) # buildMJSS(persisted.props)

\* C3: updateMJSS never raises to its caller; a failure is reported exactly
\* once; a failure in parse leaves the tree at its pre-update value, a failure
\* in render or persist leaves it at the merged (or replaced) value; when the
\* render fails the persisted string is unchanged.
C3_UpdateFailureContract ==
  [][updates' = updates + 1 =>
       /\ ~call'.raised
       /\ (call'.failedAt # "none" => Len(call'.errors) = 1)
       /\ (call'.failedAt = "parse" => currentMJSSProps' = currentMJSSProps)
       /\ (call'.failedAt \in {"render", "persist"} =>
             currentMJSSProps' = combineProps(currentMJSSProps,
                                              parseMJSS(call'.script).props,
                                              call'.replace))
       /\ (call'.failedAt = "render" => localStorage' = localStorage)]_vars

\* C3 witness: a merge-mode update whose render raised, reported once, that
\* left a tree different from the one before it.
C3_Witness ==
  /\ call.op = "update" /\ ~call.replace /\ call.failedAt = "render"
  /\ call.errors = <<"UpdateMJSS">>
  /\ currentMJSSProps # call.base

\* C6 (as claimed): a merge-mode update leaves every top-level key absent
\* from the incoming tree with the value, or the absence, it had before,
\* `animation` and string leaves included.
C6_MergeKeepsUntouchedKeys ==
  (Updated /\ ~call.replace) =>
    \A k \in Keys(call.base) \cup Keys(currentMJSSProps) :
      ~Has(Incoming, k) => Get(currentMJSSProps, k) = Get(call.base, k)

\* C7 (as claimed): a merge-mode update merges one level deep at every
\* top-level key whose value is a tree in both the current and the incoming
\* tree: the result there has every inner key of incoming, and every inner
\* key of the current tree that incoming does not override; every other
\* top-level key of incoming overrides the current tree.
C7_MergeDepthOneEverywhere ==
  (Updated /\ ~call.replace) =>
    \A k \in Keys(Incoming) :
      LET b == Get(call.base, k)
          n == Get(Incoming, k)
          r == Get(currentMJSSProps, k)
      IN IF b.t = "o" /\ n.t = "o"
           THEN /\ r.t = "o"
                /\ \A ik \in Keys(n.o) : Get(r.o, ik) = Get(n.o, ik)
                /\ \A ik \in Keys(b.o) \ Keys(n.o) : Get(r.o, ik) = Get(b.o, ik)
           ELSE r = n

\* The top-level keys the lines of a script assign
AssignedKeys(script) ==
  LET lines == ScriptLines(script)
      Pieces(i) == Split(lines[i], "=")
      Assigns(i) == /\ ~IsSkipped(lines[i])
                    /\ Len(Pieces(i)) >= 2
                    /\ Trim(Pieces(i)[1]) # <<>>
  IN { Split(Trim(Pieces(i)[1]), ".")[1] : i \in {n \in 1..Len(lines) : Assigns(n)} }

\* C8 (as claimed): for every current tree and every script, after a
\* replace-mode update no key of the previous tree survives unless the
\* script sets it, and the current tree is the tree the script parses to.
C8_ReplaceDiscardsPrior ==
  (call.op = "update" /\ call.replace) =>
    /\ \A k \in Keys(call.base) :
         Has(currentMJSSProps, k) => k \in AssignedKeys(call.script)
    /\ parseMJSS(call.script).ok => currentMJSSProps = Incoming

\* The item the store held under the engine's key when the engine was
\* constructed over the script of call c
SavedItemOf(c) == IF c.script = <<>> THEN Undefined ELSE StrV(c.script)

\* C22: store entries under keys other than the engine's key are never
\* changed; the entry under the engine's key is changed only by an
\* updateMJSS whose parse, merge and render all succeeded; construction,
\* also over a saved script with comments or malformed lines, writes nothing.
C22_StoreFrame ==
  /\ call.op = "construct" =>
       localStorage = [k \in StoreKeys |->
                         IF k = localStorageKey THEN SavedItemOf(call)
                         ELSE StrV(<<"o">>)]
  /\ [][/\ \A k \in StoreKeys \ {localStorageKey} : localStorage'[k] = localStorage[k]
        /\ localStorage'[localStorageKey] # localStorage[localStorageKey] =>
             /\ updates' = updates + 1
             /\ call'.op = "update" /\ call'.failedAt = "none"]_vars

\* C22 witness: an engine constructed over a saved script with a comment
\* and a line without `=`, on which an update then failed in its render:
\* the tree changed and the store holds the saved script as it was.
C22_Witness ==
  /\ call.op = "update" /\ call.failedAt = "render"
  /\ currentMJSSProps # call.base
  /\ OwnItem = StrV(CommentedText)
  /\ localStorage["OTHER"] = StrV(<<"o">>)

RECURSIVE WellFormed(_)
WellFormed(obj) ==
  \A i \in 1..Len(obj) :
    /\ obj[i].k # <<>>
    /\ \/ obj[i].v.t = "s"
       \/ obj[i].v.t = "o" /\ WellFormed(obj[i].v.o)

\* C9 (as claimed): in every reachable engine state every key at every
\* nesting level of the current tree is a non-empty string and every leaf
\* is a string.
C9_TreeInvariant == WellFormed(currentMJSSProps)

\* The engine state an operation is applied to
EngineState ==
  [props |-> currentMJSSProps, btn |-> buttonElem, store |-> localStorage]

\* C11: construction raises to the caller only when the container is an id
\* that cannot be resolved, and then before the store is read or an element
\* is created; a failure while reading, parsing or rendering the persisted
\* script is reported once to the error hook and construction completes with
\* an engine that holds the empty tree (read, parse) or the parsed tree
\* (render) and on which a later update completes.
C11_ConstructionFailureContract ==
  call.op = "construct" =>
    /\ call.raised <=> options.container = "missing-id"
    /\ call.raised =>
         /\ storeReads = 0
         /\ buttonElem.created = 0
         /\ call.errors = <<>>
    /\ ~call.raised =>
         /\ containerElem = TheContainer
         /\ call.errors = (IF call.failedAt = "none" THEN <<>> ELSE <<"Initialization">>)
         /\ call.failedAt \in {"read", "parse"} => currentMJSSProps = <<>>
         /\ call.failedAt \in {"render", "none"} =>
              currentMJSSProps =
                (IF call.script = <<>> THEN <<>> ELSE parseMJSS(call.script).props)
         /\ \A newScript \in RenderScripts :
              LET r == updateMJSS(EngineState, newScript, FALSE, "none")
              IN ~r.raised /\ r.failedAt = "none" /\ r.btn.exists

\* C11 witness: a construction over a persisted script on which parsing
\* raises: reported once, the engine is there with an empty tree.
C11_Witness ==
  /\ call.op = "construct" /\ ~call.raised /\ call.failedAt = "parse"
  /\ call.errors = <<"Initialization">>
  /\ containerElem = TheContainer /\ currentMJSSProps = <<>>

\* The attribute of the button a property is rendered to; an attribute that
\* was never assigned reads as the empty string
ButtonAttr(btn, key) ==
  LET a == IF key = KeyText THEN btn.textContent
           ELSE IF key = KeyColor THEN btn.backgroundColor
           ELSE IF key = KeyWidth THEN btn.width
           ELSE btn.height
  IN IF a.t = "u" THEN <<>> ELSE a.s

\* The render of the last call succeeded
RenderSucceeded == ~call.raised /\ call.failedAt \in {"none", "persist"}

\* C18 (as claimed): after every successful render each of text, color,
\* width and height that is present in the current tree equals the
\* corresponding attribute of the button, the empty string included.
C18_RenderAppliesPresent ==
  RenderSucceeded =>
    \A key \in {KeyText, KeyColor, KeyWidth, KeyHeight} :
      (Has(currentMJSSProps, key) /\ Get(currentMJSSProps, key).t = "s") =>
        ButtonAttr(buttonElem, key) = Get(currentMJSSProps, key).s

\* The leaves of a tree: key path and value
RECURSIVE Leaves(_, _)
Leaves(obj, path) ==
  UNION { IF obj[i].v.t = "o"
            THEN Leaves(obj[i].v.o, Append(path, obj[i].k))
            ELSE {<<Append(path, obj[i].k), obj[i].v>>} : i \in 1..Len(obj) }

\* C19 (as claimed): after a successful update, an engine constructed over
\* the same store and key holds a tree with the same leaf key paths and leaf
\* values as the current tree.
C19_PersistAndReload ==
  (call.op = "update" /\ call.failedAt = "none") =>
    LET b == construct("element", localStorage, "none")
    IN /\ ~b.raised /\ b.failedAt = "none"
       /\ Leaves(b.props, <<>>) = Leaves(currentMJSSProps, <<>>)

\* The id a button created for tree props is given
IdFor(props) ==
  IF Truthy(Get(props, KeyButtonID)) THEN Get(props, KeyButtonID) ELSE Undefined

\* The button was left without id by the render that created it: that render
\* raised before the button was appended
IdLeftUnset(btn, c) ==
  c.failedAt = "render" /\ ~btn.appended /\ btn.id = Undefined

\* C20: an engine creates and appends at most one button; its container
\* never changes; the id of the button is the buttonID of the tree at the
\* moment the button is created, or left unset (the tree has none, or the
\* render that creates the button raised before appending it); the id never
\* changes when later updates set or change buttonID.
C20_OneButtonIdFixedOrUnset ==
  /\ buttonElem.created <= 1 /\ buttonElem.appends <= 1
  /\ (buttonElem.exists =>
        \/ buttonElem.id = IdFor(currentMJSSProps)
        \/ IdLeftUnset(buttonElem, call))
  /\ [][/\ buttonElem'.created <= 1 /\ buttonElem'.appends <= 1
        /\ containerElem' = containerElem
        /\ buttonElem.exists => buttonElem'.id = buttonElem.id
        /\ (~buttonElem.exists /\ buttonElem'.exists) =>
             \/ buttonElem'.id = IdFor(currentMJSSProps')
             \/ IdLeftUnset(buttonElem', call')]_vars

\* C20 witness: the button exists, a later update changed buttonID in the
\* tree, and the id of the button is still the one it was created with.
C20_Witness ==
  /\ call.op = "update" /\ call.failedAt = "none"
  /\ buttonElem.created = 1 /\ buttonElem.appends = 1
  /\ Get(currentMJSSProps, KeyButtonID) = StrV(<<"q">>)
  /\ buttonElem.id = StrV(<<"p">>)

\* The attribute of the button a property is rendered to, as assigned
RawAttr(btn, key) ==
  IF key = KeyText THEN btn.textContent
  ELSE IF key = KeyColor THEN btn.backgroundColor
  ELSE IF key = KeyWidth THEN btn.width
  ELSE btn.height

\* The render of call c succeeded
RenderOk(c) == ~c.raised /\ c.failedAt \in {"none", "persist"}

\* `opacity 1s ease-in-out`
DefaultFade ==
  StrV(<<"o", "p", "a", "c", "i", "t", "y", " ", "1", "s", " ",
         "e", "a", "s", "e", "-", "i", "n", "-", "o", "u", "t">>)

\* C21: render never clears.  An update leaves each of the button's text,
\* background color, width and height either as it was or at the current
\* tree's non-empty value for it, and at that value when the render
\* succeeded; a property that is absent or empty leaves the attribute as it
\* was.  The same holds for the transition and the fade animation.
C21_RenderNeverClears ==
  [][updates' = updates + 1 =>
       /\ \A key \in {KeyText, KeyColor, KeyWidth, KeyHeight} :
            LET v == Get(currentMJSSProps', key)
            IN IF Truthy(v)
                 THEN /\ RawAttr(buttonElem', key) \in
                           {RawAttr(buttonElem, key), StrV(ToStr(v))}
                      /\ RenderOk(call') => RawAttr(buttonElem', key) = StrV(ToStr(v))
                 ELSE RawAttr(buttonElem', key) = RawAttr(buttonElem, key)
       /\ IF IsFade(currentMJSSProps')
            THEN /\ buttonElem'.transition \in
                      {buttonElem.transition, FadeTransition(currentMJSSProps')}
                 /\ RenderOk(call') =>
                      buttonElem'.transition = FadeTransition(currentMJSSProps')
            ELSE buttonElem'.transition = buttonElem.transition]_vars

\* C21 witness: a replace-mode update whose script sets neither text nor an
\* animation completed on a button with a text and the fade transition: the
\* tree has neither, the button has both.
C21_Witness ==
  /\ call.op = "update" /\ call.replace /\ call.failedAt = "none"
  /\ ~Has(currentMJSSProps, KeyText) /\ ~Has(currentMJSSProps, KeyAnimation)
  /\ buttonElem.textContent = StrV(<<"x">>)
  /\ buttonElem.transition = DefaultFade

\* ------------------------------------------------------------------------
\* Properties of the parser and the serializer
\* ------------------------------------------------------------------------
\* `a = "x"` followed by `a.b = "y"`: a path through a string leaf
PathThroughLeaf ==
  Lines2(<<"a", "=", "x">>, <<"a", ".", "b", "=", "\"", "y", "\"">>)

\* C4 (as claimed): parseMJSS returns a tree without raising for every
\* input text; a dotted key path through a key that holds a string leaf
\* replaces the leaf by a nested tree holding the new leaf.
C4_ParserNeverRaises ==
  parserPc = "parsed" =>
    /\ parsed.ok
    /\ (scriptText = PathThroughLeaf =>
          parsed.props =
            <<[k |-> <<"a">>,
               v |-> ObjV(<<[k |-> <<"b">>, v |-> StrV(<<"y">>)]>>)]>>)

OneLine == \A i \in 1..Len(scriptText) : scriptText[i] # NL

\* The text of a line left and right of its first `=`
LeftOfFirst(line) == SubSeq(line, 1, IndexOf(line, "=") - 1)

RightOfFirst(line) == SubSeq(line, IndexOf(line, "=") + 1, Len(line))

\* The tree holding one leaf under a dotted key path
TreeOf(rawKey, leaf) == assignPath(<<>>, Split(rawKey, "."), leaf).o

\* C16 (as claimed): a line is split at its first `=` only: the key path is
\* the text to its left and the raw value the entire text to its right, so a
\* value that contains `=` is stored in full; a comment line, a line without
\* `=` and a line with an empty left side store nothing.
C16_SplitAtFirstEquals ==
  (parserPc = "parsed" /\ OneLine) =>
    LET line == Trim(scriptText)
    IN /\ parsed.ok
       /\ parsed.props =
            (IF IsSkipped(line) \/ IndexOf(line, "=") = 0
                  \/ Trim(LeftOfFirst(line)) = <<>>
               THEN <<>>
               ELSE TreeOf(Trim(LeftOfFirst(line)),
                           cleanedValue(Trim(RightOfFirst(line)))))

\* The value with one matching pair of quote characters removed, when it
\* begins and ends with the same quote character, and the rest trimmed;
\* the value as it is otherwise
MatchingPairStripped(v) ==
  IF Len(v) >= 2 /\ Head(v) \in Quotes /\ v[Len(v)] = Head(v)
    THEN Trim(SubSeq(v, 2, Len(v) - 1))
    ELSE v

\* C17 (as claimed): the value of a line has quote characters removed only
\* when it begins and ends with the same quote character, and then exactly
\* that pair; a value with a quote at one end only is stored intact.
C17_MatchingQuotePairOnly ==
  (parserPc = "parsed" /\ OneLine) =>
    LET line == Trim(scriptText)
    IN (/\ ~IsSkipped(line)
        /\ Len(Split(line, "=")) = 2
        /\ Trim(LeftOfFirst(line)) # <<>>) =>
         /\ parsed.ok
         /\ parsed.props = TreeOf(Trim(LeftOfFirst(line)),
                                  MatchingPairStripped(Trim(RightOfFirst(line))))

\* ------------------------------------------------------------------------
\* Properties of the interpreter
\* ------------------------------------------------------------------------
ParseRan == run.op = "parse"

\* The numbers of the lines of a script that are neither blank nor comments
KeptLines(script) ==
  LET lines == ScriptLines(script)
      Kept(i) == ~IsSkipped(lines[i])
  IN SelectSeq([i \in 1..Len(lines) |-> i], Kept)

ErrorsFor(line) == {j \in 1..Len(run.errors) : run.errors[j].line = line}

NotesFor(line) == {j \in 1..Len(run.parsedLines) : run.parsedLines[j].line = line}

\* The handler registered for a dispatched line raises on its arguments
HandlerRaises(d) ==
  ~callHandler(commandRegistry[d.command], <<>>, d.args).ok

\* The identity of the environment assigned when the j-th dispatched line of
\* call r is handled: the one assigned before the call, until a line whose
\* handler assigns another
RECURSIVE EnvAt(_, _)
EnvAt(r, j) ==
  IF j = 1 THEN r.envId
  ELSE IF r.invoked[j - 1] = "switchEnv" THEN SwitchTarget
  ELSE EnvAt(r, j - 1)

\* Every environment object before the j-th dispatched line of call r
EnvsBefore(r, j) == IF j = 1 THEN r.envsBefore ELSE r.after[j - 1]

\* Every environment object when call r returned
EnvsAtEnd(r) ==
  IF r.after = <<>> THEN r.envsBefore ELSE r.after[Len(r.after)]

\* The effect of each dispatched line is applied to the environment assigned
\* at that line, and is there when the call returns
EffectsApplied ==
  /\ \A j \in 1..Len(run.dispatched) :
       LET d == run.dispatched[j]
           b == EnvsBefore(run, j)[EnvAt(run, j)]
       IN run.after[j][EnvAt(run, j)] =
            (IF d.outcome = "ok"
               THEN callHandler(commandRegistry[d.command], b, d.args).e
               ELSE b)
  /\ envs = EnvsAtEnd(run)

\* The reports a line whose handler returned yields: one when the
\* line-parsed hook raised, else none
ReportsWhenHandled == IF onLineParsed = "raises" THEN 1 ELSE 0

\* C1: parse dispatches every non-blank, non-comment line exactly once and in
\* script order; a line whose command is unregistered or whose handler raises
\* yields exactly one error report for that line; every later line is still
\* dispatched and its effect on the environment applied, also when the
\* line-parsed hook raises; parse returns normally.
C1_PerLineIsolation ==
  ParseRan =>
    /\ ~run.raised
    /\ [j \in 1..Len(run.dispatched) |-> run.dispatched[j].line] = KeptLines(run.script)
    /\ \A j \in 1..Len(run.dispatched) :
         LET d == run.dispatched[j]
         IN /\ d.outcome = "unknown" <=> d.command \notin DOMAIN commandRegistry
            /\ d.outcome = "raised" <=>
                 (d.command \in DOMAIN commandRegistry /\ HandlerRaises(d))
            /\ Cardinality(ErrorsFor(d.line)) =
                 IF d.outcome = "ok" THEN ReportsWhenHandled ELSE 1
    /\ \A j \in 1..Len(run.errors) :
         \E i \in 1..Len(run.dispatched) : run.dispatched[i].line = run.errors[j].line
    /\ EffectsApplied

\* C1 witness: a script with an unregistered command on one line and a
\* setProperty on a later line that changed the environment.
C1_Witness ==
  /\ ParseRan
  /\ \E j, k \in 1..Len(run.dispatched) :
       /\ j < k
       /\ run.dispatched[j].outcome = "unknown"
       /\ run.dispatched[k].outcome = "ok"
       /\ run.dispatched[k].command = CmdSetProperty
       /\ Get(envs[env], run.dispatched[k].args[1])
            # Get(run.before, run.dispatched[k].args[1])

\* C10 (as claimed): for each dispatched line whose command is registered
\* exactly one of two outcomes occurs: the handler raised, one error naming
\* the command is reported and the line-parsed hook is not invoked; or the
\* handler succeeded, the line-parsed hook (if configured) is invoked exactly
\* once with that command name and argument list, and no error is reported.
C10_RaisedOrNotified ==
  ParseRan =>
    \A j \in 1..Len(run.dispatched) :
      LET d == run.dispatched[j]
      IN d.command \in DOMAIN commandRegistry =>
           IF HandlerRaises(d)
             THEN /\ Cardinality(ErrorsFor(d.line)) = 1
                  /\ \A e \in ErrorsFor(d.line) :
                       run.errors[e].context = CommandContext(d.command)
                  /\ NotesFor(d.line) = {}
             ELSE /\ ErrorsFor(d.line) = {}
                  /\ Cardinality(NotesFor(d.line)) =
                       IF onLineParsed # "none" THEN 1 ELSE 0
                  /\ \A n \in NotesFor(d.line) :
                       /\ run.parsedLines[n].command = d.command
                       /\ run.parsedLines[n].args = d.args

\* C10 (amended): for each dispatched line whose command is registered
\* exactly one of three outcomes occurs: the handler raised, one error naming
\* the command is reported and the line-parsed hook is not invoked; or the
\* handler succeeded, the line-parsed hook (if configured) is invoked exactly
\* once with that command name and argument list and returned, and no error
\* is reported; or the handler succeeded, the hook was invoked in the same
\* way and raised, and one error naming the command is reported.
C10_RaisedNotifiedOrHookRaised ==
  ParseRan =>
    \A j \in 1..Len(run.dispatched) :
      LET d == run.dispatched[j]
      IN d.command \in DOMAIN commandRegistry =>
           IF HandlerRaises(d)
             THEN /\ Cardinality(ErrorsFor(d.line)) = 1
                  /\ \A e \in ErrorsFor(d.line) :
                       run.errors[e].context = CommandContext(d.command)
                  /\ NotesFor(d.line) = {}
             ELSE /\ Cardinality(NotesFor(d.line)) =
                       IF onLineParsed # "none" THEN 1 ELSE 0
                  /\ \A n \in NotesFor(d.line) :
                       /\ run.parsedLines[n].command = d.command
                       /\ run.parsedLines[n].args = d.args
                  /\ IF onLineParsed = "raises"
                       THEN /\ Cardinality(ErrorsFor(d.line)) = 1
                            /\ \A e \in ErrorsFor(d.line) :
                                 run.errors[e].context = CommandContext(d.command)
                       ELSE ErrorsFor(d.line) = {}

\* C10 witness: with a hook that raises, one script in which a handler
\* raised on one line, without a call of the hook, and a handler succeeded
\* on another, with a call of the hook and a report.
C10_Witness ==
  /\ ParseRan /\ onLineParsed = "raises"
  /\ \E j, k \in 1..Len(run.dispatched) :
       /\ run.dispatched[j].outcome = "raised"
       /\ NotesFor(run.dispatched[j].line) = {}
       /\ run.dispatched[k].outcome = "ok"
       /\ NotesFor(run.dispatched[k].line) # {}
       /\ ErrorsFor(run.dispatched[k].line) # {}

\* A call was made on the interpreter by this step
Called(op) == ops' = ops + 1 /\ run'.op = op

\* C12: a registerFunction call with an empty name raises and leaves the
\* registry unchanged; any other call succeeds and sets that name's handler,
\* leaving every other name as it was; no name is ever removed; dispatch of
\* a command name invokes the handler the registry holds for it, the one of
\* the most recent registration, the built-in names included.
C12_RegistrySemantics ==
  [][/\ DOMAIN commandRegistry \subseteq DOMAIN commandRegistry'
     /\ Called("register") =>
          IF run'.name = <<>>
            THEN run'.raised /\ commandRegistry' = commandRegistry
            ELSE /\ ~run'.raised
                 /\ DOMAIN commandRegistry' = DOMAIN commandRegistry \cup {run'.name}
                 /\ commandRegistry'[run'.name] = run'.handler
                 /\ \A n \in DOMAIN commandRegistry \ {run'.name} :
                      commandRegistry'[n] = commandRegistry[n]
     /\ ~Called("register") => commandRegistry' = commandRegistry
     /\ Called("parse") =>
          \A j \in 1..Len(run'.dispatched) :
            LET d == run'.dispatched[j]
            IN IF d.command \in DOMAIN commandRegistry
                 THEN /\ run'.invoked[j] = commandRegistry[d.command]
                      /\ d.outcome # "unknown"
                 ELSE run'.invoked[j] = "none" /\ d.outcome = "unknown"]_vars

\* C12 witness: the built-in setProperty was re-registered with a handler
\* without effect, and a setProperty line invoked that handler.
C12_Witness ==
  /\ ParseRan
  /\ commandRegistry[CmdSetProperty] = "noop"
  /\ \E j \in 1..Len(run.dispatched) :
       /\ run.dispatched[j].command = CmdSetProperty
       /\ run.invoked[j] = "noop"
       /\ run.after[j] = EnvsBefore(run, j)

\* The keys of two objects other than key
OtherKeys(a, b, key) == (Keys(a) \cup Keys(b)) \ {key}

\* C13: a line `setProperty k v1 ... vn` with n >= 1 leaves the assigned
\* environment mapping k to v1 ... vn joined by single spaces and every
\* other key of it unchanged, with no report unless the line-parsed hook
\* raised; with fewer than 2 arguments the handler fails, one error is
\* reported and the environment is unchanged.
C13_SetPropertyEffect ==
  ParseRan =>
    \A j \in 1..Len(run.dispatched) :
      run.invoked[j] = "setProperty" =>
        LET d == run.dispatched[j]
            b == EnvsBefore(run, j)[EnvAt(run, j)]
            a == run.after[j][EnvAt(run, j)]
        IN IF Len(d.args) >= 2
             THEN /\ d.outcome = "ok"
                  /\ Get(a, d.args[1]) = StrV(Words(Tail(d.args)))
                  /\ \A k \in OtherKeys(a, b, d.args[1]) : Get(a, k) = Get(b, k)
                  /\ Cardinality(ErrorsFor(d.line)) = ReportsWhenHandled
             ELSE /\ d.outcome = "raised"
                  /\ a = b
                  /\ Cardinality(ErrorsFor(d.line)) = 1

\* C13 witness: the line `setProperty  a x<tab> y ` stored "x y" under a in
\* an environment that held another key, which is still there.
C13_Witness ==
  /\ ParseRan /\ run.script = Lines3(SetBY, CmdFoo, SetAXY)
  /\ run.invoked = <<"setProperty", "none", "setProperty">>
  /\ envs[env] = <<[k |-> <<"b">>, v |-> StrV(<<"y">>)],
                   [k |-> <<"a">>, v |-> StrV(<<"x", " ", "y">>)]>>

\* {animationName, duration}
LastAnimation(animationName, duration) ==
  ObjV(<<[k |-> KeyAnimationName, v |-> StrV(animationName)],
         [k |-> KeyDuration, v |-> StrV(duration)]>>)

\* C14: an animateElement line with at least 2 arguments leaves
\* lastAnimation = {animationName: first argument, duration: second
\* argument} in the assigned environment and changes no other key of it, no
\* other environment and no registry entry, with no report unless the
\* line-parsed hook raised; with fewer than 2 arguments the handler fails,
\* one error is reported and the environment is unchanged.
C14_AnimateElementEffect ==
  [][Called("parse") =>
       /\ commandRegistry' = commandRegistry
       /\ \A j \in 1..Len(run'.dispatched) :
            run'.invoked[j] = "animateElement" =>
              LET d == run'.dispatched[j]
                  id == EnvAt(run', j)
                  b == EnvsBefore(run', j)
                  a == run'.after[j]
              IN IF Len(d.args) >= 2
                   THEN /\ d.outcome = "ok"
                        /\ Get(a[id], KeyLastAnimation) = LastAnimation(d.args[1], d.args[2])
                        /\ \A k \in OtherKeys(a[id], b[id], KeyLastAnimation) :
                             Get(a[id], k) = Get(b[id], k)
                        /\ \A i \in 1..MaxEnvs : i # id => a[i] = b[i]
                        /\ Cardinality({e \in 1..Len(run'.errors) :
                                          run'.errors[e].line = d.line})
                             = ReportsWhenHandled'
                   ELSE /\ d.outcome = "raised"
                        /\ a = b
                        /\ Cardinality({e \in 1..Len(run'.errors) :
                                          run'.errors[e].line = d.line}) = 1]_vars

\* C14 witness: `animateElement f 2s z` after a setProperty line: the
\* environment holds the property and lastAnimation = {f, 2s}.
C14_Witness ==
  /\ ParseRan /\ run.script = Lines2(SetBY, AnimateF2Z)
  /\ run.invoked = <<"setProperty", "animateElement">>
  /\ Get(envs[env], KeyLastAnimation) = LastAnimation(<<"f">>, <<"2", "s">>)
  /\ Get(envs[env], <<"b">>) = StrV(<<"y">>)

\* The identity of the environment assigned when call r returned
EnvAtEnd(r) == EnvAt(r, Len(r.dispatched) + 1)

\* C15: setEnvironment assigns the given object and writes nothing; every
\* write of a dispatched line goes to the object assigned at that line, be it
\* assigned by the host before the call or by a handler earlier in the
\* script, and no other object is modified.
C15_WritesGoToAssignedEnv ==
  [][/\ Called("setEnvironment") => env' = run'.envId /\ envs' = envs
     /\ Called("register") => env' = env /\ envs' = envs
     /\ Called("parse") =>
          /\ run'.envId = env /\ run'.envsBefore = envs
          /\ \A j \in 1..Len(run'.dispatched) :
               \A i \in 1..MaxEnvs :
                 i # EnvAt(run', j) => run'.after[j][i] = EnvsBefore(run', j)[i]
          /\ envs' = EnvsAtEnd(run')
          /\ env' = EnvAtEnd(run')]_vars

\* C15 witness: a script whose first line wrote to the environment assigned
\* before, whose second line had a handler assign another one, and whose
\* third line wrote to that one and left the first as it was.
C15_Witness ==
  /\ ParseRan /\ run.script = Lines3(SetBY, CmdFoo, SetAXY)
  /\ run.invoked = <<"setProperty", "switchEnv", "setProperty">>
  /\ run.envId = OwnEnv /\ env = SwitchTarget
  /\ envs[OwnEnv] = <<[k |-> <<"b">>, v |-> StrV(<<"y">>)]>>
  /\ Get(envs[SwitchTarget], <<"a">>) = StrV(<<"x", " ", "y">>)
  /\ ~Has(envs[SwitchTarget], <<"b">>)

====
